---- MODULE Spec2Model ----
(***************************************************************************)
(* Model of solaris/tile/vector_tile.py: search_gdf_bounds,                *)
(* search_gdf_polygon, vector_tile_utm and clip_gdf.                       *)
(*                                                                         *)
(* Geometry is exact on an integer grid.  A geometry is a closed set of    *)
(* grid elements in doubled coordinates <<a, b>>: both odd is a unit face, *)
(* exactly one odd is a unit edge, both even is a vertex.  Intersection is *)
(* set intersection, area counts faces, length counts boundary and free    *)
(* edges.  Fractions (partialDec, min_partial_perc) are pairs <<n, d>>;    *)
(* <<0, 0>> is NaN.                                                        *)
(***************************************************************************)
EXTENDS Integers, Sequences, FiniteSets, TLC

VARIABLES gdf, gdf0, depth, out, last

vars == <<gdf, gdf0, depth, out, last>>

\* Largest number of rows of a caller's collection.
MaxRows == 2

\* Largest number of clip results fed back as the next call's input.
MaxChain == 1

----------------------------------------------------------------------------
\* shapely geometry, as used by the module

\* shapely.geometry.box(minx, miny, maxx, maxy): the closed rectangle.
Box(W, S, E, N) == {<<a, b>> : a \in (2 * W)..(2 * E), b \in (2 * S)..(2 * N)}

IsFace(e) == e[1] % 2 = 1 /\ e[2] % 2 = 1

IsEdge(e) == (e[1] % 2 = 1) # (e[2] % 2 = 1)

IsVertex(e) == e[1] % 2 = 0 /\ e[2] % 2 = 0

\* The faces a unit edge borders.
EdgeFaces(e) ==
    IF e[1] % 2 = 1
    THEN {<<e[1], e[2] - 1>>, <<e[1], e[2] + 1>>}
    ELSE {<<e[1] - 1, e[2]>>, <<e[1] + 1, e[2]>>}

\* The edges that end in a vertex.
VertexEdges(e) ==
    {<<e[1] - 1, e[2]>>, <<e[1] + 1, e[2]>>, <<e[1], e[2] - 1>>, <<e[1], e[2] + 1>>}

Faces(g) == {e \in g : IsFace(e)}

\* Edges of g that border no face of g: its one-dimensional part.
FreeEdges(g) == {e \in g : IsEdge(e) /\ EdgeFaces(e) \cap g = {}}

\* Vertices of g that end no edge of g: its zero-dimensional part.
FreeVertices(g) == {e \in g : IsVertex(e) /\ VertexEdges(e) \cap g = {}}

\* GeoSeries.area
Area(g) == Cardinality(Faces(g))

\* GeoSeries.length: perimeter of the areal part plus length of the lineal part.
Length(g) ==
    Cardinality({e \in g : IsEdge(e) /\ Cardinality(EdgeFaces(e) \cap g) # 2})

Min(S) == CHOOSE x \in S : \A y \in S : x <= y

Max(S) == CHOOSE x \in S : \A y \in S : x >= y

\* geometry.bounds of a non-empty geometry: <<minx, miny, maxx, maxy>>.
Bounds(g) ==
    <<Min({e[1] : e \in g}), Min({e[2] : e \in g}),
      Max({e[1] : e \in g}), Max({e[2] : e \in g})>>

\* Bounding boxes share a point.
BoundsIntersect(b, c) ==
    b[1] <= c[3] /\ c[1] <= b[3] /\ b[2] <= c[4] /\ c[2] <= b[4]

\* GeoSeries.intersects(other)
Intersects(g, h) == g \cap h # {}

\* GeoSeries.intersection(other)
Intersection(g, h) == g \cap h

\* What the geometry library reports as the type of an empty intersection:
\* GEOMETRYCOLLECTION EMPTY or an empty geometry of the operands' dimension.
EmptyKinds == {"GeometryCollection", "LineString"}

\* GeoSeries.geom_type; ek is the type reported for an empty geometry.
GeomType(g, ek) ==
    LET nf == IF Faces(g) = {} THEN 0 ELSE 1
        ne == IF FreeEdges(g) = {} THEN 0 ELSE 1
        nv == IF FreeVertices(g) = {} THEN 0 ELSE 1
    IN  IF g = {} THEN ek
        ELSE IF nf + ne + nv > 1 THEN "GeometryCollection"
        ELSE IF nf = 1 THEN "Polygon"
        ELSE IF ne = 1 THEN "LineString"
        ELSE "Point"

----------------------------------------------------------------------------
\* fractions

NaN == <<0, 0>>

\* a / b in floating point: x/0 is inf for x > 0 and NaN for x = 0.
Div(a, b) == <<a, b>>

\* p > m; every comparison with NaN is false.
Gt(p, m) ==
    IF p[2] = 0 THEN p[1] > 0 /\ m[2] # 0
    ELSE IF m[2] = 0 THEN FALSE
    ELSE p[1] * m[2] > m[1] * p[2]

\* p == m; NaN equals nothing.
FEq(p, m) ==
    IF p[2] = 0 \/ m[2] = 0 THEN p[1] > 0 /\ m[1] > 0 /\ p[2] = 0 /\ m[2] = 0
    ELSE p[1] * m[2] = m[1] * p[2]

One == <<1, 1>>

----------------------------------------------------------------------------
\* GeoDataFrame: a set of column names and a sequence of rows.  A row keeps
\* its index label idx (the row's identity), its geometry, one attribute
\* column attr, and the derived columns; a derived field means nothing
\* while its column is not in cols.

Row(i, g) ==
    [idx |-> i, geometry |-> g, attr |-> i,
     origarea |-> 0, origlen |-> 0, partialDec |-> NaN, truncated |-> 0]

\* gpd.GeoDataFrame(geometry=[])
EmptyGdf == [cols |-> {"geometry"}, rows |-> <<>>]

\* Boolean-mask row selection df[mask]: keeps the rows' order.
RECURSIVE Filter(_, _)
Filter(rows, mask) ==
    IF rows = <<>> THEN <<>>
    ELSE (IF Head(mask) THEN <<Head(rows)>> ELSE <<>>)
         \o Filter(Tail(rows), Tail(mask))

\* Iloc with the rows taken in the frame's order instead of the order given.
IlocSorted(rows, positions) ==
    LET S == {positions[k] : k \in 1..Len(positions)}
    IN  [k \in 1..Len(positions) |->
            rows[CHOOSE p \in S : Cardinality({q \in S : q < p}) = k - 1]]

\* df.iloc[positions]: the rows at the positions, in the order given.
Iloc(rows, positions) == [k \in 1..Len(positions) |-> rows[positions[k]]]

\* The positions whose bounding box meets the query box; empty geometries
\* are not in the index.
SindexHits(g, bounds) ==
    {i \in 1..Len(g.rows) :
        /\ g.rows[i].geometry # {}
        /\ BoundsIntersect(Bounds(g.rows[i].geometry), bounds)}

\* The orders in which the spatial index may report a set of positions.
Orders(S) ==
    {s \in [1..Cardinality(S) -> S] : \A i, j \in DOMAIN s : s[i] = s[j] => i = j}

\* EmptyFallback returning no frame at all for an empty match.
EmptyFallbackNone(precise_matches) ==
    IF precise_matches.rows = <<>>
    THEN [kind |-> "None", val |-> EmptyGdf]
    ELSE [kind |-> "gdf", val |-> precise_matches]

\* precise_matches is replaced by a fresh frame when it has no rows.
EmptyFallback(precise_matches) ==
    IF precise_matches.rows = <<>>
    THEN [kind |-> "gdf", val |-> EmptyGdf]
    ELSE [kind |-> "gdf", val |-> precise_matches]

\* search_gdf_polygon(gdf, tile_polygon); possible_matches_index is the list
\* sindex.intersection returned.
SearchGdfPolygon(g, tile_polygon, possible_matches_index) ==
    LET possible_matches == Iloc(g.rows, possible_matches_index)
        mask == [k \in DOMAIN possible_matches |->
                    Intersects(possible_matches[k].geometry, tile_polygon)]
        precise_matches == [cols |-> g.cols, rows |-> Filter(possible_matches, mask)]
    IN  EmptyFallback(precise_matches)

\* The test of lines 147 and 154: it compares two string literals, never the
\* geom_type argument.
LineStringTest(geom_type) == "geom_type" = "LineString"

\* OrigAreaColumn that recomputes the column on every call.
OrigAreaRecomputed(g, geom_type) ==
    [cols |-> g.cols \cup {"origarea"},
     rows |-> [k \in DOMAIN g.rows |->
                 [g.rows[k] EXCEPT !.origarea = Area(g.rows[k].geometry)]]]

\* Lines 144-150: keep an origarea column that is there, else add one.
OrigAreaColumn(g, geom_type) ==
    IF "origarea" \in g.cols THEN g
    ELSE [cols |-> g.cols \cup {"origarea"},
          rows |-> [k \in DOMAIN g.rows |->
                      [g.rows[k] EXCEPT !.origarea =
                          IF LineStringTest(geom_type) THEN 0
                          ELSE Area(g.rows[k].geometry)]]]

\* Lines 151-157: keep an origlen column that is there, else add one.
OrigLenColumn(g, geom_type) ==
    IF "origlen" \in g.cols THEN g
    ELSE [cols |-> g.cols \cup {"origlen"},
          rows |-> [k \in DOMAIN g.rows |->
                      [g.rows[k] EXCEPT !.origlen =
                          IF LineStringTest(geom_type) THEN Length(g.rows[k].geometry)
                          ELSE 0]]]

\* KeepPartial with >= in place of >.
KeepPartialGe(partialDec, min_partial_perc) ==
    Gt(partialDec, min_partial_perc) \/ FEq(partialDec, min_partial_perc)

\* Line 166: the rows kept in polygon mode.
KeepPartial(partialDec, min_partial_perc) == Gt(partialDec, min_partial_perc)

\* Truncated with == in place of !=.
TruncatedInverted(partialDec) == IF FEq(partialDec, One) THEN 1 ELSE 0

\* Line 167: (partialDec != 1.0).astype(int)
Truncated(partialDec) == IF FEq(partialDec, One) THEN 0 ELSE 1

\* Lines 164-171 on the clipped copy.
Measure(cut, min_partial_perc, geom_type, ek) ==
    IF geom_type = "Polygon"
    THEN LET pd == [k \in DOMAIN cut.rows |->
                      [cut.rows[k] EXCEPT !.partialDec =
                          Div(Area(cut.rows[k].geometry), cut.rows[k].origarea)]]
             mask == [k \in DOMAIN pd |-> KeepPartial(pd[k].partialDec, min_partial_perc)]
             kept == Filter(pd, mask)
         IN  [cols |-> cut.cols \cup {"partialDec", "truncated"},
              rows |-> [k \in DOMAIN kept |->
                          [kept[k] EXCEPT !.truncated = Truncated(kept[k].partialDec)]]]
    ELSE LET mask == [k \in DOMAIN cut.rows |->
                        GeomType(cut.rows[k].geometry, ek) # "GeometryCollection"]
             kept == Filter(cut.rows, mask)
         IN  [cols |-> cut.cols \cup {"partialDec", "truncated"},
              rows |-> [k \in DOMAIN kept |->
                          [kept[k] EXCEPT !.partialDec = One, !.truncated = 0]]]

\* clip_gdf(gdf, poly_to_cut, min_partial_perc, geom_type, use_sindex).
\* res is the frame returned (a search that returned no frame has no
\* columns attribute to test); arg is the caller's frame after the call: with
\* use_sindex the name gdf is rebound to the search result, without it the
\* column assignments of lines 148-157 write into the caller's frame.
ClipGdf(g, poly_to_cut, min_partial_perc, geom_type, use_sindex, cand, ek) ==
    LET found == IF use_sindex
                 THEN SearchGdfPolygon(g, poly_to_cut, cand)
                 ELSE [kind |-> "gdf", val |-> g]
        searched == found.val
        based == OrigLenColumn(OrigAreaColumn(searched, geom_type), geom_type)
        cutGeoDF == [cols |-> based.cols,
                     rows |-> [k \in DOMAIN based.rows |->
                                 [based.rows[k] EXCEPT !.geometry =
                                     Intersection(based.rows[k].geometry, poly_to_cut)]]]
    IN  IF found.kind # "gdf"
        THEN [res |-> [kind |-> "AttributeError", val |-> EmptyGdf], arg |-> g]
        ELSE [res |-> [kind |-> "gdf",
                       val |-> Measure(cutGeoDF, min_partial_perc, geom_type, ek)],
              arg |-> IF use_sindex THEN g ELSE based]

\* box(*args): four positional arguments are required.
BoxCall(args) ==
    IF Len(args) = 4
    THEN [kind |-> "polygon", val |-> Box(args[1], args[2], args[3], args[4])]
    ELSE [kind |-> "TypeError", val |-> {}]

\* min_partial_perc=0.1 in the signature of vector_tile_utm.
VectorTileUtmDefault == <<1, 10>>

\* min_partial_perc=0.0 in the signature of clip_gdf.
ClipGdfDefault == <<0, 1>>

\* vector_tile_utm(gdf, tile_bounds, min_partial_perc, geom_type, use_sindex):
\* use_sindex is not passed on, clip_gdf runs with its default True.
VectorTileUtm(g, tile_bounds, min_partial_perc, geom_type, use_sindex, cand, ek) ==
    LET tile_polygon == BoxCall(tile_bounds)
    IN  ClipGdf(g, tile_polygon.val, min_partial_perc, geom_type, TRUE, cand, ek)

\* search_gdf_bounds(gdf, tile_bounds): box is called with the tuple as its
\* only argument.
SearchGdfBounds(g, tile_bounds, cand) ==
    LET tile_polygon == BoxCall(<<tile_bounds>>)
    IN  IF tile_polygon.kind = "TypeError"
        THEN [kind |-> "TypeError", val |-> EmptyGdf]
        ELSE SearchGdfPolygon(g, tile_polygon.val, cand)

----------------------------------------------------------------------------
\* the callers: inputs the calls are made with

\* A 4 x 4 square.
Big == Box(0, 0, 4, 4)

\* A unit square inside the bounding box of NPoly and outside NPoly.
Sm == Box(2, 0, 3, 1)

\* A horizontal line from (0, 1) to (5, 1).
Ln == Box(0, 1, 5, 1)

Geoms == {Big, Sm, Ln}

\* Tile bounds (W, S, E, N).
TileBounds == {<<0, 2, 4, 4>>, <<1, 0, 3, 4>>, <<3, 1, 4, 2>>}

\* An n-shaped clip polygon with bounding box (0, 0, 6, 4).
NPoly == Box(0, 0, 1, 4) \cup Box(1, 3, 5, 4) \cup Box(5, 1, 6, 4)

Polys == {Box(b[1], b[2], b[3], b[4]) : b \in TileBounds} \cup {NPoly}

MinPartialPercs == {<<0, 1>>, <<6, 10>>}

GeomTypes == {"Polygon", "LineString"}

\* The frames a caller builds: up to MaxRows rows, one attribute column.
Inputs ==
    {[cols |-> {"geometry", "attr"}, rows |-> [k \in DOMAIN gs |-> Row(k, gs[k])]] :
        gs \in UNION {[1..m -> Geoms] : m \in 0..MaxRows}}

\* The record of a call: its name, the frame passed (as it was before the
\* call), the arguments, and use_sindex as clip_gdf ran with it.
NoCall ==
    [op |-> "none", arg |-> EmptyGdf, poly |-> {}, bounds |-> <<0, 0, 0, 0>>,
     mpp |-> ClipGdfDefault, dflt |-> FALSE, geom_type |-> "Polygon",
     use_sindex |-> FALSE, cand |-> <<>>, ek |-> "GeometryCollection"]

NoOut == [kind |-> "none", val |-> EmptyGdf]

Init ==
    /\ gdf \in Inputs
    /\ gdf0 = gdf
    /\ depth = 0
    /\ out = NoOut
    /\ last = NoCall

\* The candidate orders the index may report for a query with poly's bounds.
Cands(g, poly) == Orders(SindexHits(g, Bounds(poly)))

\* A caller runs clip_gdf on its frame.
ClipGdfCall ==
    /\ last.op = "none"
    /\ \E poly \in Polys, geom_type \in GeomTypes, use_sindex \in BOOLEAN :
         \E mpp \in (IF geom_type = "Polygon" THEN MinPartialPercs
                     ELSE {ClipGdfDefault}),
            ek \in (IF geom_type = "Polygon" THEN {"GeometryCollection"}
                    ELSE EmptyKinds),
            cand \in (IF use_sindex THEN Cands(gdf, poly) ELSE {<<>>}) :
             LET r == ClipGdf(gdf, poly, mpp, geom_type, use_sindex, cand, ek)
             IN  /\ out' = r.res
                 /\ gdf' = r.arg
                 /\ last' = [op |-> "clip_gdf", arg |-> gdf, poly |-> poly,
                             bounds |-> <<0, 0, 0, 0>>, mpp |-> mpp, dflt |-> FALSE,
                             geom_type |-> geom_type, use_sindex |-> use_sindex,
                             cand |-> cand, ek |-> ek]
                 /\ UNCHANGED <<gdf0, depth>>

\* A caller runs vector_tile_utm on its frame, with or without min_partial_perc.
VectorTileUtmCall ==
    /\ last.op = "none"
    /\ \E b \in TileBounds, geom_type \in GeomTypes, use_sindex \in BOOLEAN :
         \E dflt \in (IF geom_type = "Polygon" THEN BOOLEAN ELSE {TRUE}) :
         \E mpp \in (IF dflt THEN {VectorTileUtmDefault} ELSE MinPartialPercs),
            ek \in (IF geom_type = "Polygon" THEN {"GeometryCollection"}
                    ELSE EmptyKinds),
            cand \in Cands(gdf, Box(b[1], b[2], b[3], b[4])) :
             LET r == VectorTileUtm(gdf, b, mpp, geom_type, use_sindex, cand, ek)
             IN  /\ out' = r.res
                 /\ gdf' = r.arg
                 /\ last' = [op |-> "vector_tile_utm", arg |-> gdf,
                             poly |-> Box(b[1], b[2], b[3], b[4]), bounds |-> b,
                             mpp |-> mpp, dflt |-> dflt, geom_type |-> geom_type,
                             use_sindex |-> TRUE, cand |-> cand, ek |-> ek]
                 /\ UNCHANGED <<gdf0, depth>>

\* A caller runs search_gdf_polygon on its frame.
SearchGdfPolygonCall ==
    /\ last.op = "none"
    /\ \E poly \in Polys :
         \E cand \in Cands(gdf, poly) :
             /\ out' = SearchGdfPolygon(gdf, poly, cand)
             /\ last' = [NoCall EXCEPT !.op = "search_gdf_polygon", !.arg = gdf,
                                       !.poly = poly, !.use_sindex = TRUE,
                                       !.cand = cand]
             /\ UNCHANGED <<gdf, gdf0, depth>>

\* A caller runs search_gdf_bounds on its frame.
SearchGdfBoundsCall ==
    /\ last.op = "none"
    /\ \E b \in TileBounds :
         \E cand \in Cands(gdf, Box(b[1], b[2], b[3], b[4])) :
             /\ out' = SearchGdfBounds(gdf, b, cand)
             /\ last' = [NoCall EXCEPT !.op = "search_gdf_bounds", !.arg = gdf,
                                       !.poly = Box(b[1], b[2], b[3], b[4]),
                                       !.bounds = b, !.use_sindex = TRUE,
                                       !.cand = cand]
             /\ UNCHANGED <<gdf, gdf0, depth>>

IsClip(op) == op \in {"clip_gdf", "vector_tile_utm"}

\* The caller passes the frame a call returned to its next call.
Feed ==
    /\ out.kind = "gdf"
    /\ IsClip(last.op) => depth < MaxChain
    /\ gdf' = out.val
    /\ depth' = IF IsClip(last.op) THEN depth + 1 ELSE depth
    /\ out' = NoOut
    /\ last' = NoCall
    /\ UNCHANGED gdf0

Next ==
    \/ ClipGdfCall
    \/ VectorTileUtmCall
    \/ SearchGdfPolygonCall
    \/ SearchGdfBoundsCall
    \/ Feed

Spec == Init /\ [][Next]_vars

----------------------------------------------------------------------------
\* properties

Range(f) == {f[k] : k \in DOMAIN f}

RowIds(g) == {r.idx : r \in Range(g.rows)}

\* The position in g of the row labelled i.
Pos(g, i) == CHOOSE k \in DOMAIN g.rows : g.rows[k].idx = i

\* The row the last call was passed under label i.
ArgRow(i) == last.arg.rows[Pos(last.arg, i)]

\* The rows of the returned frame are in the order they have in the frame passed.
InputOrder ==
    \A k, l \in DOMAIN out.val.rows :
        k < l => Pos(last.arg, out.val.rows[k].idx) < Pos(last.arg, out.val.rows[l].idx)

\* The rows of the returned frame are in the order the index reported them.
IndexOrder ==
    \A k, l \in DOMAIN out.val.rows :
        k < l =>
            \E a, b \in DOMAIN last.cand :
                /\ a < b
                /\ last.cand[a] = Pos(last.arg, out.val.rows[k].idx)
                /\ last.cand[b] = Pos(last.arg, out.val.rows[l].idx)

\* The area a row of the frame passed is measured against.
Baseline(r) ==
    IF "origarea" \in last.arg.cols THEN r.origarea ELSE Area(r.geometry)

\* C1: search_gdf_bounds returns a frame whose rows are rows of the frame
\* passed, each with a geometry that intersects the rectangle (W, S, E, N).
C1_SearchBoundsSound ==
    last.op = "search_gdf_bounds" =>
        /\ out.kind = "gdf"
        /\ \A r \in Range(out.val.rows) :
            /\ r \in Range(last.arg.rows)
            /\ Intersects(r.geometry, last.poly)

\* C2: clip_gdf on a frame without origarea and origlen gives every row
\* origarea = its area and origlen = 0 in polygon mode, and origarea = 0 and
\* origlen = its length in linestring mode.
C2_BaselineByKind ==
    (/\ last.op = "clip_gdf"
     /\ out.kind = "gdf"
     /\ "origarea" \notin last.arg.cols
     /\ "origlen" \notin last.arg.cols) =>
        \A r \in Range(out.val.rows) :
            IF last.geom_type = "Polygon"
            THEN r.origarea = Area(ArgRow(r.idx).geometry) /\ r.origlen = 0
            ELSE r.origarea = 0 /\ r.origlen = Length(ArgRow(r.idx).geometry)

\* C3: after a chain of two or more clips, each on the previous result, every
\* surviving row's origarea is the area the feature had before the first
\* clip, and in polygon mode partialDec is the clipped area over that area.
C3_BaselineKept ==
    (IsClip(last.op) /\ out.kind = "gdf" /\ depth >= 1) =>
        \A r \in Range(out.val.rows) :
            /\ r.origarea = Area(gdf0.rows[r.idx].geometry)
            /\ last.geom_type = "Polygon" =>
                r.partialDec = Div(Area(r.geometry), Area(gdf0.rows[r.idx].geometry))

\* A second clip returned a row whose geometry had already been shrunk.
C3_Witness ==
    /\ last.op = "clip_gdf"
    /\ depth >= 1
    /\ \E r \in Range(out.val.rows) :
        /\ Area(ArgRow(r.idx).geometry) < r.origarea
        /\ Area(r.geometry) < Area(ArgRow(r.idx).geometry)

\* C4: in polygon mode the result holds exactly the rows passed whose clipped
\* area over their baseline is strictly greater than min_partial_perc; with
\* min_partial_perc = 0.0 no row wholly outside the clip polygon is returned,
\* with and without the index.
C4_ExactlyAboveMin ==
    (last.op = "clip_gdf" /\ last.geom_type = "Polygon") =>
        /\ out.kind = "gdf"
        /\ RowIds(out.val) =
            {r.idx : r \in {x \in Range(last.arg.rows) :
                Gt(Div(Area(Intersection(x.geometry, last.poly)), Baseline(x)),
                   last.mpp)}}
        /\ \A r \in Range(out.val.rows) :
            /\ FEq(r.partialDec, Div(Area(r.geometry), r.origarea))
            /\ Gt(r.partialDec, last.mpp)
        /\ last.mpp = ClipGdfDefault =>
            \A x \in Range(last.arg.rows) :
                ~Intersects(x.geometry, last.poly) => x.idx \notin RowIds(out.val)

\* A polygon clip without the index kept one row and dropped a row that lies
\* wholly outside the clip polygon.
C4_Witness ==
    /\ last.op = "clip_gdf"
    /\ last.geom_type = "Polygon"
    /\ ~last.use_sindex
    /\ last.mpp = ClipGdfDefault
    /\ out.val.rows # <<>>
    /\ \E x \in Range(last.arg.rows) :
        /\ Area(x.geometry) > 0
        /\ ~Intersects(x.geometry, last.poly)
        /\ x.idx \notin RowIds(out.val)

\* C5: in polygon mode truncated is 1 exactly when partialDec differs from
\* 1.0 and 0 otherwise; a row wholly inside the clip polygon with a fresh
\* baseline has partialDec 1.0 and truncated 0; a row that keeps half its
\* area has partialDec 0.5 and truncated 1.
C5_TruncatedFlag ==
    (IsClip(last.op) /\ out.kind = "gdf" /\ last.geom_type = "Polygon") =>
        \A r \in Range(out.val.rows) :
            /\ r.truncated \in {0, 1}
            /\ r.truncated = 1 <=> ~FEq(r.partialDec, One)
            /\ ("origarea" \notin last.arg.cols
                    /\ ArgRow(r.idx).geometry \subseteq last.poly) =>
                (FEq(r.partialDec, One) /\ r.truncated = 0)
            /\ 2 * Area(r.geometry) = r.origarea =>
                (FEq(r.partialDec, <<1, 2>>) /\ r.truncated = 1)

\* One polygon clip returned a row wholly inside the clip polygon and a row
\* cut to half its area.
C5_Witness ==
    /\ last.op = "clip_gdf"
    /\ last.geom_type = "Polygon"
    /\ "origarea" \notin last.arg.cols
    /\ \E r \in Range(out.val.rows) :
        /\ ArgRow(r.idx).geometry \subseteq last.poly
        /\ r.truncated = 0
    /\ \E r \in Range(out.val.rows) :
        /\ 2 * Area(r.geometry) = r.origarea
        /\ r.truncated = 1

\* Two frames with the same columns and the same rows, in any order.
SameLogical(a, b) == a.cols = b.cols /\ Range(a.rows) = Range(b.rows)

\* C6: clip_gdf returns the same rows, geometries, attribute columns and
\* derived columns with use_sindex true as with use_sindex false.
C6_IndexEquivalent ==
    (last.op = "clip_gdf" /\ out.kind = "gdf") =>
        \A c \in (IF last.use_sindex THEN {<<>>} ELSE Cands(last.arg, last.poly)) :
            SameLogical(out.val,
                        ClipGdf(last.arg, last.poly, last.mpp, last.geom_type,
                                ~last.use_sindex, c, last.ek).res.val)

\* C7: no call changes the frame it is passed: same rows, same geometries,
\* same columns.
C7_InputUnchanged == last.op # "none" => gdf = last.arg

\* C8 as stated: search_gdf_polygon with at least one match returns the
\* matches in the order of the frame passed, with its columns, and the rows
\* clip_gdf returns are in the order of the frame passed.
C8_OriginalOrder ==
    /\ (last.op = "search_gdf_polygon" /\ out.kind = "gdf" /\ out.val.rows # <<>>) =>
        (InputOrder /\ out.val.cols = last.arg.cols)
    /\ (IsClip(last.op) /\ out.kind = "gdf") => InputOrder

\* C8 amended: search_gdf_polygon with at least one match returns the
\* matches, unchanged and with the columns of the frame passed, in the order
\* the spatial index reported them; the rows clip_gdf returns are in the
\* index's order with use_sindex and in the order of the frame passed
\* without it.
C8_IndexOrder ==
    /\ (last.op = "search_gdf_polygon" /\ out.kind = "gdf" /\ out.val.rows # <<>>) =>
        /\ IndexOrder
        /\ out.val.cols = last.arg.cols
        /\ Range(out.val.rows) =
            {x \in Range(last.arg.rows) : Intersects(x.geometry, last.poly)}
    /\ (IsClip(last.op) /\ out.kind = "gdf") =>
        IF last.use_sindex THEN IndexOrder ELSE InputOrder

\* A search returned two rows in the reverse of their order in the frame passed.
C8_Witness ==
    /\ last.op = "search_gdf_polygon"
    /\ Len(out.val.rows) >= 2
    /\ Pos(last.arg, out.val.rows[1].idx) > Pos(last.arg, out.val.rows[2].idx)

\* C9: search_gdf_polygon always returns a frame; when the frame passed is
\* empty or nothing in it intersects the tile polygon, the frame returned has
\* no rows and has its geometry column; clip_gdf on such a frame returns a
\* frame with no rows.
C9_EmptyIsFrame ==
    /\ last.op = "search_gdf_polygon" =>
        /\ out.kind = "gdf"
        /\ "geometry" \in out.val.cols
        /\ (\A x \in Range(last.arg.rows) : ~Intersects(x.geometry, last.poly)) =>
            out.val.rows = <<>>
    /\ (IsClip(last.op) /\ last.arg.rows = <<>>) =>
        /\ out.kind = "gdf"
        /\ out.val.rows = <<>>
        /\ "geometry" \in out.val.cols

\* clip_gdf ran on the frame an unmatched search returned.
C9_Witness ==
    /\ last.op = "clip_gdf"
    /\ last.arg = EmptyGdf
    /\ gdf0.rows # <<>>
    /\ out.kind = "gdf"
    /\ out.val.rows = <<>>

\* C10: vector_tile_utm called without min_partial_perc returns the rows
\* clip_gdf returns for the tile rectangle with its own default.
C10_DefaultIsZero ==
    (last.op = "vector_tile_utm" /\ last.dflt /\ out.kind = "gdf") =>
        RowIds(out.val) =
            RowIds(ClipGdf(last.arg, last.poly, ClipGdfDefault, last.geom_type,
                           TRUE, last.cand, last.ek).res.val)

====
